---- MODULE Spec2Model ----
(***************************************************************************)
(* A model of the leads resource of the partner-finder API                 *)
(* (backend/api/blueprints/leads.py): the leads table and the handlers of  *)
(* GET/POST /leads and GET/PUT/DELETE /leads/<id>.                         *)
(*                                                                         *)
(* A dict key (a column name, a JSON key) is a TLA+ string.  A Python str   *)
(* that the code computes on is a sequence of one-character strings, so    *)
(* that lower(), strip() and split() are computed character by character;  *)
(* Spelling gives the characters of each field name.  Python None is the   *)
(* value None below and a Python int n is IntV(n).                         *)
(***************************************************************************)
EXTENDS Integers, Sequences, FiniteSets

\* ---------------------------------------------------------------- values

\* Python's None (no str equals it: a str holds one-character strings only).
None == <<"None">>

\* A Python int.
IntV(n) == <<"int", n>>

\* ------------------------------------------------- the fixed field names

\* DEFAULT_LEAD_FIELDS, in the order of the source.
DEFAULT_LEAD_FIELDS ==
  << "id",
     "company_name",
     "company_address",
     "formation_date",
     "contact_name",
     "website",
     "phone",
     "email",
     "twitter",
     "facebook",
     "linkedin",
     "last_email",
     "last_google_search",
     "last_twitter_search",
     "last_facebook_search",
     "last_linkedin_search",
     "instagram",
     "mission_statement",
     "programs",
     "populations_served",
     "county",
     "colorado_region",
     "data_source" >>

\* The characters of each name of DEFAULT_LEAD_FIELDS.
Spelling ==
  [ id |-> <<"i","d">>,
    company_name |-> <<"c","o","m","p","a","n","y","_","n","a","m","e">>,
    company_address |-> <<"c","o","m","p","a","n","y","_","a","d","d","r","e","s","s">>,
    formation_date |-> <<"f","o","r","m","a","t","i","o","n","_","d","a","t","e">>,
    contact_name |-> <<"c","o","n","t","a","c","t","_","n","a","m","e">>,
    website |-> <<"w","e","b","s","i","t","e">>,
    phone |-> <<"p","h","o","n","e">>,
    email |-> <<"e","m","a","i","l">>,
    twitter |-> <<"t","w","i","t","t","e","r">>,
    facebook |-> <<"f","a","c","e","b","o","o","k">>,
    linkedin |-> <<"l","i","n","k","e","d","i","n">>,
    last_email |-> <<"l","a","s","t","_","e","m","a","i","l">>,
    last_google_search |-> <<"l","a","s","t","_","g","o","o","g","l","e","_","s","e","a","r","c","h">>,
    last_twitter_search |-> <<"l","a","s","t","_","t","w","i","t","t","e","r","_","s","e","a","r","c","h">>,
    last_facebook_search |-> <<"l","a","s","t","_","f","a","c","e","b","o","o","k","_","s","e","a","r","c","h">>,
    last_linkedin_search |-> <<"l","a","s","t","_","l","i","n","k","e","d","i","n","_","s","e","a","r","c","h">>,
    instagram |-> <<"i","n","s","t","a","g","r","a","m">>,
    mission_statement |-> <<"m","i","s","s","i","o","n","_","s","t","a","t","e","m","e","n","t">>,
    programs |-> <<"p","r","o","g","r","a","m","s">>,
    populations_served |-> <<"p","o","p","u","l","a","t","i","o","n","s","_","s","e","r","v","e","d">>,
    county |-> <<"c","o","u","n","t","y">>,
    colorado_region |-> <<"c","o","l","o","r","a","d","o","_","r","e","g","i","o","n">>,
    data_source |-> <<"d","a","t","a","_","s","o","u","r","c","e">> ]

socrata == <<"s","o","c","r","a","t","a">>
colorado_nonprofit_association == <<"c","o","l","o","r","a","d","o","_","n","o","n","p","r","o","f","i","t","_","a","s","s","o","c","i","a","t","i","o","n">>
user_entry == <<"u","s","e","r","_","e","n","t","r","y">>

\* VALID_DATA_SOURCES, in the order of the source.
VALID_DATA_SOURCES == << socrata, colorado_nonprofit_association, user_entry >>

\* ------------------------------------------------------- str operations

Range(s) == {s[i] : i \in DOMAIN s}

\* The fixed field set: what `field in DEFAULT_LEAD_FIELDS` tests.
FieldSet == Range(DEFAULT_LEAD_FIELDS)

UpperCase ==
  << "A","B","C","D","E","F","G","H","I","J","K","L","M",
     "N","O","P","Q","R","S","T","U","V","W","X","Y","Z" >>

LowerCase ==
  << "a","b","c","d","e","f","g","h","i","j","k","l","m",
     "n","o","p","q","r","s","t","u","v","w","x","y","z" >>

Whitespace == {" ", "\t", "\n", "\r"}

lowerChar(c) ==
  IF \E i \in DOMAIN UpperCase : UpperCase[i] = c
  THEN LowerCase[CHOOSE i \in DOMAIN UpperCase : UpperCase[i] = c]
  ELSE c

\* str.lower()
lower(s) == [i \in 1..Len(s) |-> lowerChar(s[i])]

\* str.strip(): leading and trailing whitespace removed.
strip(s) ==
  LET keep == {i \in DOMAIN s : s[i] \notin Whitespace}
  IN IF keep = {} THEN <<>>
     ELSE LET a == CHOOSE i \in keep : \A j \in keep : i <= j
              b == CHOOSE i \in keep : \A j \in keep : j <= i
          IN SubSeq(s, a, b)

\* str.split(sep) for a one-character separator: "a,,b" gives three pieces,
\* "" gives one empty piece.
RECURSIVE split(_, _)
split(s, sep) ==
  LET at == {i \in DOMAIN s : s[i] = sep}
  IN IF at = {} THEN << s >>
     ELSE LET k == CHOOSE i \in at : \A j \in at : i <= j
          IN << SubSeq(s, 1, k - 1) >> \o split(SubSeq(s, k + 1, Len(s)), sep)

\* Python truthiness of a value (`if data_source:`): None, "" and 0 are false.
Truthy(v) == v /= None /\ v /= <<>> /\ v /= IntV(0)

\* dict.get(key): the value, or None when the key is absent.
Get(d, k) == IF k \in DOMAIN d THEN d[k] ELSE None

\* A dict restricted to some of its keys (a dict comprehension with a filter).
Restrict(d, keys) == [k \in keys |-> d[k]]

\* ----------------------------------------------------------------- bounds

\* The id sequence is capped: no insert is attempted once it has reached MaxId.
MaxId == 2

\* --------------------------------------------------------- request inputs

acme == <<"a","c","m","e">>
acme_acme == <<"a","c","m","e"," ","a","c","m","e">>
User_Entry == <<"U","s","e","r","_","E","n","t","r","y">>
invalid_value == <<"i","n","v","a","l","i","d","_","v","a","l","u","e">>

\* The keys a JSON body may carry: two fixed fields, id, and a key that is no
\* column of the table.
JsonKeys == {"id", "company_name", "data_source", "owner"}

JsonValuesOf(k) ==
  IF k = "id" THEN {IntV(1)}
  ELSE IF k = "company_name" THEN {None, acme}
  ELSE IF k = "data_source" THEN {user_entry, User_Entry, invalid_value, <<>>}
  ELSE {acme}

\* The JSON objects of the requests; id and owner come together or not at all.
JsonBodies ==
  {b \in UNION {[K -> UNION {JsonValuesOf(k) : k \in JsonKeys}] : K \in SUBSET JsonKeys} :
      /\ \A k \in DOMAIN b : b[k] \in JsonValuesOf(k)
      /\ ("id" \in DOMAIN b) <=> ("owner" \in DOMAIN b)}

Ids == 1..MaxId

\* ------------------------------------------------------------------ state

VARIABLES
  leads,         \* the leads table: id |-> row, a row maps every field to a value
  leads_id_seq,  \* the last value the id sequence of the table has given out
  everIds,       \* history: the ids of all rows the table has ever held
  deletedIds,    \* history: the ids a DELETE request has removed
  req,           \* the request handled last (one request at a time)
  resp,          \* its response: [status, body]
  workers        \* the requests in flight when several are served at once

db == << leads, leads_id_seq, everIds, deletedIds >>

vars == << leads, leads_id_seq, everIds, deletedIds, req, resp, workers >>

\* ------------------------------------------------------ the database layer

\* A column the INSERT does not name takes its default; every column other than
\* id is nullable and has none.
ColumnDefault(f) == None

\* nextval of the serial id column.
NextVal(seq) == seq + 1

\* INSERT INTO leads (columns) VALUES (placeholders) RETURNING *.  With no column
\* the statement is malformed and the database raises; a duplicate id violates
\* the primary key and the database raises.
DbInsert(t, seq, body) ==
  IF DOMAIN body = {} THEN [raised |-> TRUE, table |-> t, seq |-> seq, rows |-> <<>>]
  ELSE LET n == IF "id" \in DOMAIN body THEN body.id[2] ELSE NextVal(seq)
           s == IF "id" \in DOMAIN body THEN seq ELSE NextVal(seq)
           row == [f \in FieldSet |->
                     IF f = "id" THEN IntV(n)
                     ELSE IF f \in DOMAIN body THEN body[f] ELSE ColumnDefault(f)]
       IN IF n \in DOMAIN t
          THEN [raised |-> TRUE, table |-> t, seq |-> s, rows |-> <<>>]
          ELSE [raised |-> FALSE,
                table |-> [i \in DOMAIN t \cup {n} |-> IF i = n THEN row ELSE t[i]],
                seq |-> s,
                rows |-> << row >>]

\* The update of one column list that overwrites every column of the row, the
\* columns the body does not name with their defaults.
DbUpdate_OverwritesRow(t, i, body) ==
  IF DOMAIN body = {} THEN [raised |-> TRUE, table |-> t, rows |-> <<>>]
  ELSE IF i \notin DOMAIN t THEN [raised |-> FALSE, table |-> t, rows |-> <<>>]
  ELSE LET row == [f \in FieldSet |->
                     IF f \in DOMAIN body THEN body[f]
                     ELSE IF f = "id" THEN t[i][f] ELSE ColumnDefault(f)]
       IN [raised |-> FALSE,
           table |-> [j \in DOMAIN t |-> IF j = i THEN row ELSE t[j]],
           rows |-> << row >>]

\* UPDATE leads SET f=:f, ... WHERE id = :id RETURNING *.  With an empty SET list
\* the statement is malformed and the database raises.
DbUpdate(t, i, body) ==
  IF DOMAIN body = {} THEN [raised |-> TRUE, table |-> t, rows |-> <<>>]
  ELSE IF i \notin DOMAIN t THEN [raised |-> FALSE, table |-> t, rows |-> <<>>]
  ELSE LET row == [f \in FieldSet |-> IF f \in DOMAIN body THEN body[f] ELSE t[i][f]]
           n == row.id[2]
       IN IF n /= i /\ n \in DOMAIN t
          THEN [raised |-> TRUE, table |-> t, rows |-> <<>>]
          ELSE [raised |-> FALSE,
                table |-> [j \in (DOMAIN t \ {i}) \cup {n} |-> IF j = n THEN row ELSE t[j]],
                rows |-> << row >>]

\* The delete whose statement has no WHERE clause: every row goes.
DbDelete_AllRows(t, i) ==
  IF i \notin DOMAIN t THEN [raised |-> FALSE, table |-> t, rows |-> <<>>]
  ELSE [raised |-> FALSE, table |-> [j \in {} |-> t[j]], rows |-> << t[i] >>]

\* DELETE FROM leads WHERE id = :id RETURNING *
DbDelete(t, i) ==
  IF i \notin DOMAIN t THEN [raised |-> FALSE, table |-> t, rows |-> <<>>]
  ELSE [raised |-> FALSE,
        table |-> [j \in DOMAIN t \ {i} |-> t[j]],
        rows |-> << t[i] >>]

\* SELECT columns FROM leads WHERE id = :id
DbSelectById(t, i) == IF i \in DOMAIN t THEN << t[i] >> ELSE <<>>

\* {field: getattr(row, field) for field in fields}
Project(row, fields) == [f \in Range(fields) |-> row[f]]

\* ------------------------------------------------------------ the handlers

\* What an exception no handler catches becomes.
InternalError == [status |-> 500, body |-> [message |-> "Internal Server Error"]]

NotFoundMessage == "Could not find lead with given id."

\* The body of a create that keeps the id the JSON carries.
CreateBody_KeepsId(json) ==
  Restrict(json, {f \in DOMAIN json : f \in FieldSet /\ json[f] /= None})

\* _create_new_lead: the body it keeps of the JSON.
CreateBody(json) ==
  Restrict(json, {f \in DOMAIN json : f /= "id" /\ f \in FieldSet /\ json[f] /= None})

\* _create_new_lead: whether the data source validation rejects the body.
DataSourceRejected(body) ==
  LET ds == Get(body, "data_source")
  IN Truthy(ds) /\ lower(ds) \notin Range(VALID_DATA_SOURCES)

\* _create_new_lead: the 422 response.
InvalidDataSource(body) ==
  [status |-> 422,
   body |-> [message |-> "Invalid value for the data_source parameter",
             value |-> lower(body.data_source)]]

\* _create_new_lead: the response once the INSERT has run.
CreateResponse(res) ==
  IF res.raised THEN InternalError
  ELSE [status |-> 200, body |-> Project(res.rows[1], DEFAULT_LEAD_FIELDS)]

\* _modify_lead_with_id: the body it keeps of the JSON.
ModifyBody(json) ==
  Restrict(json, {f \in DOMAIN json : f /= "id" /\ f \in FieldSet})

\* _modify_lead_with_id: the response once the UPDATE has run.
ModifyResponse(i, json, res) ==
  IF res.raised THEN InternalError
  ELSE IF res.rows = <<>>
  THEN [status |-> 404,
        body |-> [params |-> [id |-> i], body |-> json, message |-> NotFoundMessage]]
  ELSE [status |-> 200, body |-> Project(res.rows[1], DEFAULT_LEAD_FIELDS)]

\* _delete_lead_with_id: the response once the DELETE has run.
DeleteResponse(i, res) ==
  IF res.rows = <<>>
  THEN [status |-> 404, body |-> [params |-> [id |-> i], message |-> NotFoundMessage]]
  ELSE [status |-> 200, body |-> Project(res.rows[1], DEFAULT_LEAD_FIELDS)]

\* _get_lead_by_id: the response once the SELECT has run.
GetResponse(i, rows) ==
  IF rows = <<>>
  THEN [status |-> 404, body |-> [params |-> [id |-> i], message |-> NotFoundMessage]]
  ELSE [status |-> 200, body |-> Project(rows[1], DEFAULT_LEAD_FIELDS)]

\* _create_new_lead as a whole: the table, the sequence and the response it leaves.
ServeCreate(t, seq, json) ==
  LET body == CreateBody(json)
      res == DbInsert(t, seq, body)
  IN IF DataSourceRejected(body)
     THEN [table |-> t, seq |-> seq, resp |-> InvalidDataSource(body)]
     ELSE [table |-> res.table, seq |-> res.seq, resp |-> CreateResponse(res)]

\* _modify_lead_with_id as a whole.
ServeModify(t, seq, i, json) ==
  LET res == DbUpdate(t, i, ModifyBody(json))
  IN [table |-> res.table, seq |-> seq, resp |-> ModifyResponse(i, json, res)]

\* _delete_lead_with_id as a whole.
ServeDelete(t, seq, i) ==
  LET res == DbDelete(t, i)
  IN [table |-> res.table, seq |-> seq, resp |-> DeleteResponse(i, res)]

\* The ids a DELETE has removed, after a request that took table t to table u.
Removed(t, u, r) ==
  IF r.method = "DELETE" /\ r.id \in DOMAIN t /\ r.id \notin DOMAIN u THEN {r.id} ELSE {}

EmptyTable == [i \in {} |-> None]

NoRequest == [method |-> "NONE"]

NoResponse == [status |-> 0, body |-> [message |-> "none"]]

NoWorkers == [w \in {} |-> NoRequest]

\* The view function has returned: the response is sent and nothing of the
\* request is kept.
EndRequest ==
  /\ req /= NoRequest
  /\ req' = NoRequest
  /\ resp' = NoResponse
  /\ UNCHANGED << db, workers >>

\* POST /leads
CreateNewLead ==
  \E json \in JsonBodies :
    LET out == ServeCreate(leads, leads_id_seq, json)
    IN /\ req = NoRequest
       /\ leads_id_seq < MaxId
       /\ req' = [method |-> "POST", json |-> json]
       /\ resp' = out.resp
       /\ leads' = out.table
       /\ leads_id_seq' = out.seq
       /\ everIds' = everIds \cup DOMAIN out.table
       /\ UNCHANGED << deletedIds, workers >>

\* GET /leads/<id>
GetLeadById ==
  \E i \in Ids :
    /\ req = NoRequest
    /\ req' = [method |-> "GET", id |-> i]
    /\ resp' = GetResponse(i, DbSelectById(leads, i))
    /\ UNCHANGED << db, workers >>

\* PUT /leads/<id>
ModifyLeadWithId ==
  \E i \in Ids, json \in JsonBodies :
    LET out == ServeModify(leads, leads_id_seq, i, json)
    IN /\ req = NoRequest
       /\ req' = [method |-> "PUT", id |-> i, json |-> json]
       /\ resp' = out.resp
       /\ leads' = out.table
       /\ everIds' = everIds \cup DOMAIN out.table
       /\ UNCHANGED << leads_id_seq, deletedIds, workers >>

\* DELETE /leads/<id>
DeleteLeadWithId ==
  \E i \in Ids :
    LET out == ServeDelete(leads, leads_id_seq, i)
    IN /\ req = NoRequest
       /\ req' = [method |-> "DELETE", id |-> i]
       /\ resp' = out.resp
       /\ leads' = out.table
       /\ deletedIds' = deletedIds \cup Removed(leads, out.table, req')
       /\ UNCHANGED << leads_id_seq, everIds, workers >>

\* The service as started on an empty table, serving one request at a time.
Init ==
  /\ leads = EmptyTable
  /\ leads_id_seq = 0
  /\ everIds = {}
  /\ deletedIds = {}
  /\ req = NoRequest
  /\ resp = NoResponse
  /\ workers = NoWorkers

Next ==
  \/ CreateNewLead
  \/ GetLeadById
  \/ ModifyLeadWithId
  \/ DeleteLeadWithId
  \/ EndRequest

Spec == Init /\ [][Next]_vars


\* -------------------------------------------------------------- GET /leads

str_true == <<"t","r","u","e">>
str_false == <<"f","a","l","s","e">>

\* The spellings of the fixed fields: what a computed str is looked up in.
FieldSpellings == {Spelling[f] : f \in FieldSet}

\* The column a spelled name is the attribute of (getattr(row, field)).
NameOf(cs) == CHOOSE f \in FieldSet : Spelling[f] = cs

\* request.args.get(name, default): an absent parameter is None.
ArgOr(v, default) == IF v = None THEN default ELSE v

\* parse_pagination_params: raises ValueError unless page and perpage are
\* integers of at least 1.
PaginationError(args) ==
  ~ ( /\ Len(args.page) = 2 /\ args.page[1] = "int" /\ args.page[2] >= 1
      /\ Len(args.perpage) = 2 /\ args.perpage[1] = "int" /\ args.perpage[2] >= 1 )

\* drop_null = request.args.get("drop_null", "false").lower() == "true"
DropNull(args) == lower(ArgOr(args.drop_null, str_false)) = str_true

\* The include filter that compares the name as written.
IncludeKept_CaseSensitive(field) == field \in FieldSpellings

\* The filter of the include comprehension: field.lower() in DEFAULT_LEAD_FIELDS
IncludeKept(field) == lower(field) \in FieldSpellings

\* include: list(DEFAULT_LEAD_FIELDS), or the kept pieces of the parameter, each
\* lower-cased and stripped.
IncludeList(args) ==
  IF args.include = None
  THEN [k \in DOMAIN DEFAULT_LEAD_FIELDS |-> Spelling[DEFAULT_LEAD_FIELDS[k]]]
  ELSE LET kept == SelectSeq(split(args.include, ","), IncludeKept)
       IN [k \in DOMAIN kept |-> strip(lower(kept[k]))]

\* The offset that skips whole pages up to and including the requested one.
Offset_SkipsPage(page, limit) == page * limit

\* offset = (page - 1) * limit
Offset(page, limit) == (page - 1) * limit

RECURSIVE Ascending(_)
\* ORDER BY id: the ids of a set in ascending order.
Ascending(S) ==
  IF S = {} THEN <<>>
  ELSE LET m == CHOOSE i \in S : \A j \in S : i <= j
       IN << m >> \o Ascending(S \ {m})

\* to_tsvector(company_name) @@ to_tsquery(search): the name holds the search
\* term as a word; a null name matches nothing.
TsMatch(name, search) ==
  name /= None /\ lower(search) \in Range(split(lower(name), " "))

\* ts_rank(to_tsvector(company_name), search): grows with the number of times
\* the term occurs in the name.
TsRank(name, search) ==
  LET words == split(lower(name), " ")
  IN Cardinality({k \in DOMAIN words : words[k] = lower(search)})

\* The orders in which the search query may return its rows: ORDER BY ts_rank
\* with no direction is ascending, and rows of equal rank come in any order.
SearchOrders(t, search) ==
  LET hits == {i \in DOMAIN t : TsMatch(t[i].company_name, search)}
      n == Cardinality(hits)
  IN {o \in [1..n -> hits] :
        /\ \A k, l \in 1..n : k /= l => o[k] /= o[l]
        /\ \A k, l \in 1..n :
             k < l => TsRank(t[o[k]].company_name, search) <= TsRank(t[o[l]].company_name, search)}

\* The orders of the rows of either query, before LIMIT and OFFSET.
RowOrders(t, search) ==
  IF search = None THEN {Ascending(DOMAIN t)} ELSE SearchOrders(t, search)

\* LIMIT :limit OFFSET :offset
LimitOffset(order, limit, offset) ==
  SubSeq(order, offset + 1, IF offset + limit < Len(order) THEN offset + limit ELSE Len(order))

\* One lead of the response: the included fields of the row, the null ones
\* dropped on request.
LeadOf(row, include, drop_null) ==
  LET keys == {NameOf(include[k]) : k \in DOMAIN include}
      lead == [f \in keys |-> row[f]]
  IN IF drop_null THEN Restrict(lead, {k \in keys : lead[k] /= None}) ELSE lead

\* The 200 response of _get_all_leads for the rows the query returned.
ListResponse(t, args, order) ==
  LET page == args.page[2]
      perpage == args.perpage[2]
      ids == LimitOffset(order, perpage, Offset(page, perpage))
      include == IncludeList(args)
  IN [status |-> 200,
      body |-> [count |-> Len(ids),
                query |-> [page |-> page, perpage |-> perpage],
                leads |-> [k \in DOMAIN ids |-> LeadOf(t[ids[k]], include, DropNull(args))]]]

\* The 400 response of _get_all_leads.
InvalidQuery ==
  [status |-> 400,
   body |-> [message |-> "invalid query parameters", detail |-> [error |-> "ValueError"]]]

\* Bounds of the listing requests and of the tables they are made on.
MaxPage == 3
MaxPerPage == 2
MaxListRows == 3

inc_lower == <<"i","d",",","c","o","m","p","a","n","y","_","n","a","m","e">>
inc_mixed == <<"I","D",",","C","o","m","p","a","n","y","_","N","a","m","e">>
inc_spaced == <<"i","d",","," ","w","e","b","s","i","t","e">>
inc_unknown == <<"b","o","g","u","s",",","d","a","t","a","_","s","o","u","r","c","e",",">>
inc_empty == <<>>

Includes == {None, inc_lower, inc_mixed, inc_spaced, inc_unknown, inc_empty}

DropNulls == {None, str_true, <<"T","r","u","e">>, str_false}

Searches == {None, acme}

\* Every page and page size, with and without search, all fields included.
PagingArgs ==
  {[page |-> IntV(p), perpage |-> IntV(n), search |-> s, include |-> None, drop_null |-> None] :
     p \in 1..MaxPage, n \in 1..MaxPerPage, s \in Searches}

\* Every include and drop_null, with and without search, on the first page.
ProjectionArgs ==
  {[page |-> IntV(1), perpage |-> IntV(MaxPerPage), search |-> s, include |-> inc, drop_null |-> d] :
     s \in Searches, inc \in Includes, d \in DropNulls}

\* A page that is no number, and a page below 1.
MalformedArgs ==
  {[page |-> p, perpage |-> IntV(1), search |-> None, include |-> None, drop_null |-> None] :
     p \in {<<"x">>, IntV(0)}}

ListArgs == PagingArgs \cup ProjectionArgs \cup MalformedArgs

\* GET /leads
GetAllLeads ==
  \E args \in ListArgs :
    /\ req = NoRequest
    /\ req' = [method |-> "LIST", args |-> args]
    /\ IF PaginationError(args)
       THEN resp' = InvalidQuery
       ELSE \E order \in RowOrders(leads, args.search) :
              resp' = ListResponse(leads, args, order)
    /\ UNCHANGED << db, workers >>

ListNames == {None, acme, acme_acme}

ListRow(i, name) ==
  [f \in FieldSet |->
     IF f = "id" THEN IntV(i) ELSE IF f = "company_name" THEN name ELSE ColumnDefault(f)]

\* The tables the listing is made on: any of the ids 1..MaxListRows, each row
\* with a company name or none.
ListTables ==
  UNION {{[i \in S |-> ListRow(i, names[i])] : names \in [S -> ListNames]} :
           S \in SUBSET (1..MaxListRows)}

\* The service with rows created and some deleted, about to serve listings.
ListInit ==
  /\ leads \in ListTables
  /\ leads_id_seq = MaxListRows
  /\ everIds = 1..MaxListRows
  /\ deletedIds = (1..MaxListRows) \ DOMAIN leads
  /\ req = NoRequest
  /\ resp = NoResponse
  /\ workers = NoWorkers

ListNext ==
  \/ GetAllLeads
  \/ EndRequest

ListSpec == ListInit /\ [][ListNext]_vars

\* ----------------------------------------- requests served concurrently

\* The number of requests in flight at once.
NumWorkers == 2

Workers == 1..NumWorkers

\* The table the concurrent requests start on: one lead, of id 1.
ConcTable == [i \in {1} |-> [ListRow(1, acme) EXCEPT !.data_source = user_entry]]

\* The write requests that race: a create, updates of lead 1 that set disjoint
\* columns, an update whose body names no column, an update and a delete of the
\* lead the create inserts, and a delete of lead 1.
ConcRequests ==
  { [method |-> "POST", json |-> [company_name |-> acme_acme]],
    [method |-> "POST", json |-> [data_source |-> invalid_value]],
    [method |-> "PUT", id |-> 1, json |-> [company_name |-> acme_acme]],
    [method |-> "PUT", id |-> 1, json |-> [data_source |-> socrata]],
    [method |-> "PUT", id |-> 1, json |-> [owner |-> acme]],
    [method |-> "PUT", id |-> 2, json |-> [company_name |-> acme]],
    [method |-> "DELETE", id |-> 1],
    [method |-> "DELETE", id |-> 2] }

NoResult == [raised |-> FALSE, rows |-> <<>>]

\* A handler has built the body of its statement from the JSON (POST, PUT), or
\* has nothing to build (DELETE); a create that fails validation returns here.
Parse(w) ==
  LET r == workers[w].req
      body == IF r.method = "POST" THEN CreateBody(r.json)
              ELSE IF r.method = "PUT" THEN ModifyBody(r.json)
              ELSE <<>>
  IN /\ workers[w].pc = "start"
     /\ workers' =
          [workers EXCEPT ![w] =
             IF r.method = "POST" /\ DataSourceRejected(body)
             THEN [@ EXCEPT !.pc = "done", !.body = body, !.resp = InvalidDataSource(body)]
             ELSE [@ EXCEPT !.pc = "exec", !.body = body]]
     /\ UNCHANGED << db, req, resp >>

\* The INSERT of a create runs in its transaction, which commits (or, when the
\* statement raised, rolls back) as the with block ends.
ExecuteInsert(w) ==
  LET res == DbInsert(leads, leads_id_seq, workers[w].body)
  IN /\ workers[w].pc = "exec"
     /\ workers[w].req.method = "POST"
     /\ leads' = res.table
     /\ leads_id_seq' = res.seq
     /\ everIds' = everIds \cup DOMAIN res.table
     /\ workers' = [workers EXCEPT ![w].pc = "respond",
                                   ![w].res = [raised |-> res.raised, rows |-> res.rows]]
     /\ UNCHANGED << deletedIds, req, resp >>

\* The UPDATE of a modify runs in its transaction.
ExecuteUpdate(w) ==
  LET res == DbUpdate(leads, workers[w].req.id, workers[w].body)
  IN /\ workers[w].pc = "exec"
     /\ workers[w].req.method = "PUT"
     /\ leads' = res.table
     /\ everIds' = everIds \cup DOMAIN res.table
     /\ workers' = [workers EXCEPT ![w].pc = "respond",
                                   ![w].res = [raised |-> res.raised, rows |-> res.rows]]
     /\ UNCHANGED << leads_id_seq, deletedIds, req, resp >>

\* The DELETE of a delete runs in its transaction.
ExecuteDelete(w) ==
  LET res == DbDelete(leads, workers[w].req.id)
  IN /\ workers[w].pc = "exec"
     /\ workers[w].req.method = "DELETE"
     /\ leads' = res.table
     /\ deletedIds' = deletedIds \cup Removed(leads, res.table, workers[w].req)
     /\ workers' = [workers EXCEPT ![w].pc = "respond",
                                   ![w].res = [raised |-> res.raised, rows |-> res.rows]]
     /\ UNCHANGED << leads_id_seq, everIds, req, resp >>

\* The handler builds its response from the row its statement returned.
Respond(w) ==
  LET r == workers[w].req
      res == workers[w].res
  IN /\ workers[w].pc = "respond"
     /\ workers' =
          [workers EXCEPT ![w].pc = "done",
                          ![w].resp = IF r.method = "POST" THEN CreateResponse(res)
                                      ELSE IF r.method = "PUT" THEN ModifyResponse(r.id, r.json, res)
                                      ELSE DeleteResponse(r.id, res)]
     /\ UNCHANGED << db, req, resp >>

\* NumWorkers write requests arrive at once on the one-lead table.
ConcInit ==
  /\ leads = ConcTable
  /\ leads_id_seq = 1
  /\ everIds = {1}
  /\ deletedIds = {}
  /\ req = NoRequest
  /\ resp = NoResponse
  /\ workers \in [Workers -> {[pc |-> "start", req |-> r, body |-> <<>>,
                               res |-> NoResult, resp |-> NoResponse] : r \in ConcRequests}]

ConcNext ==
  \E w \in Workers :
    \/ Parse(w)
    \/ ExecuteInsert(w)
    \/ ExecuteUpdate(w)
    \/ ExecuteDelete(w)
    \/ Respond(w)

ConcSpec == ConcInit /\ [][ConcNext]_vars

\* ------------------------------------------- claims on the item endpoints

\* C1: every stored lead's data_source is null or exactly one of the three
\* valid values, in every state that POST, PUT and DELETE requests reach.
C1_StoredDataSourceValid ==
  \A i \in DOMAIN leads : leads[i].data_source \in {None} \cup Range(VALID_DATA_SOURCES)

\* The fixed fields other than id that a JSON body supplies.
Supplied(json) == {f \in DOMAIN json : f \in FieldSet /\ f /= "id"}

\* C2: a PUT on an existing id answers 200 with the full projection of the row,
\* sets exactly the fixed fields other than id that the body supplies, each to
\* the supplied value, and leaves the rest of the row and every other row alone.
C2_PutChangesExactlySupplied ==
  [][ (req'.method = "PUT" /\ req'.id \in DOMAIN leads) =>
        LET i == req'.id
            json == req'.json
        IN /\ resp'.status = 200
           /\ DOMAIN leads' = DOMAIN leads
           /\ \A j \in DOMAIN leads \ {i} : leads'[j] = leads[j]
           /\ \A f \in FieldSet :
                leads'[i][f] = IF f \in Supplied(json) THEN json[f] ELSE leads[i][f]
           /\ resp'.body = leads'[i] ]_vars

\* C3: a POST whose data_source is not null and, lower-cased, is not a valid
\* value answers 422 and leaves the table unchanged.
C3_InvalidDataSourceIs422 ==
  [][ ( /\ req'.method = "POST"
        /\ "data_source" \in DOMAIN req'.json
        /\ req'.json.data_source /= None
        /\ lower(req'.json.data_source) \notin Range(VALID_DATA_SOURCES) ) =>
        (resp'.status = 422 /\ leads' = leads) ]_vars

\* C5: GET, PUT (with any JSON body) and DELETE on an id that has no row answer
\* 404 with params.id the requested id and leave the table unchanged; the PUT
\* payload also echoes the submitted body.
C5_MissingIdIs404 ==
  [][ (req'.method \in {"GET", "PUT", "DELETE"} /\ req'.id \notin DOMAIN leads) =>
        /\ resp'.status = 404
        /\ resp'.body.params.id = req'.id
        /\ leads' = leads
        /\ (req'.method = "PUT" => resp'.body.body = req'.json) ]_vars

\* C6: a DELETE on an existing id answers 200 with the deleted row's full
\* projection and removes only that row; from then on the id has no row and a
\* GET on it answers 404, whatever creates, updates and deletes follow.
C6_DeletedIdStaysGone ==
  /\ [][ (req'.method = "DELETE" /\ req'.id \in DOMAIN leads) =>
           /\ resp'.status = 200
           /\ resp'.body = leads[req'.id]
           /\ DOMAIN leads' = DOMAIN leads \ {req'.id}
           /\ \A j \in DOMAIN leads' : leads'[j] = leads[j]
           /\ req'.id \in deletedIds' ]_vars
  /\ [](\A i \in deletedIds : i \notin DOMAIN leads)
  /\ []((req.method = "GET" /\ req.id \in deletedIds) => resp.status = 404)

\* A GET on a deleted id answered 404 after a later create put a row in the table.
C6_Witness ==
  /\ req.method = "GET"
  /\ req.id \in deletedIds
  /\ resp.status = 404
  /\ resp.body.params.id = req.id
  /\ \E j \in DOMAIN leads : j > req.id

\* C7: a POST whose data_source is a valid value answers 200 and inserts exactly
\* one row, which holds the supplied non-null fixed fields and nulls elsewhere;
\* its id is not the body's but a new one, the id of no row the table holds or
\* has ever held.
C7_CreateInsertsRowWithFreshId ==
  [][ ( /\ req'.method = "POST"
        /\ "data_source" \in DOMAIN req'.json
        /\ req'.json.data_source \in Range(VALID_DATA_SOURCES) ) =>
        LET json == req'.json
        IN /\ resp'.status = 200
           /\ \E n \in DOMAIN leads' :
                /\ n \notin DOMAIN leads
                /\ n \notin everIds
                /\ DOMAIN leads' = DOMAIN leads \cup {n}
                /\ \A j \in DOMAIN leads : leads'[j] = leads[j]
                /\ leads'[n] = [f \in FieldSet |->
                                  IF f = "id" THEN IntV(n)
                                  ELSE IF f \in Supplied(json) /\ json[f] /= None
                                  THEN json[f] ELSE None]
                /\ resp'.body = leads'[n] ]_vars

\* A create whose body names id 1 got id 2, after the lead of id 1 was deleted.
C7_Witness ==
  /\ req.method = "POST"
  /\ "id" \in DOMAIN req.json
  /\ req.json.id = IntV(1)
  /\ Get(req.json, "data_source") = user_entry
  /\ resp.status = 200
  /\ resp.body.id = IntV(2)
  /\ resp.body.data_source = user_entry
  /\ 1 \in deletedIds
  /\ DOMAIN leads = {2}

\* ------------------------------------------------- claims on the listing

\* C4: with search given, whenever two returned leads differ in rank for the
\* search term, the higher-ranked lead comes before the lower-ranked one.
C4_SearchOrderedByRankDescending ==
  (req.method = "LIST" /\ resp.status = 200 /\ req.args.search /= None) =>
    LET out == resp.body.leads
    IN \A k, l \in DOMAIN out :
         ( /\ k < l
           /\ "company_name" \in DOMAIN out[k]
           /\ "company_name" \in DOMAIN out[l] ) =>
           TsRank(out[k].company_name, req.args.search)
             >= TsRank(out[l].company_name, req.args.search)

\* page >= 1 and perpage >= 1.
ValidPaging(args) ==
  /\ Len(args.page) = 2 /\ args.page[1] = "int" /\ args.page[2] >= 1
  /\ Len(args.perpage) = 2 /\ args.perpage[1] = "int" /\ args.perpage[2] >= 1

\* The position, from 1, of id i in the table ordered by id ascending.
Position(t, i) == Cardinality({j \in DOMAIN t : j <= i})

\* C8: for page >= 1 and perpage >= 1, a listing without search answers the
\* leads at positions (page-1)*perpage+1 .. page*perpage of the table in id
\* order: the first (page-1)*perpage rows are skipped, at most perpage leads
\* come back, count is their number, and the table is unchanged.
C8_PageOfIdOrder ==
  [][ (req'.method = "LIST" /\ req'.args.search = None /\ ValidPaging(req'.args)) =>
        LET page == req'.args.page[2]
            perpage == req'.args.perpage[2]
            skipped == (page - 1) * perpage
            out == resp'.body.leads
        IN /\ resp'.status = 200
           /\ leads' = leads
           /\ resp'.body.count = Len(out)
           /\ Len(out) <= perpage
           /\ Len(out) = Cardinality({i \in DOMAIN leads :
                                        /\ Position(leads, i) > skipped
                                        /\ Position(leads, i) <= page * perpage})
           /\ \A k \in DOMAIN out :
                \E i \in DOMAIN leads :
                  /\ Position(leads, i) = skipped + k
                  /\ \A f \in DOMAIN out[k] : out[k][f] = leads[i][f]
                  /\ (req'.args.include = None /\ req'.args.drop_null = None)
                       => out[k] = leads[i] ]_vars

\* Page 2 of size 2 of a table of three leads is the lead of id 3.
C8_Witness ==
  /\ req.method = "LIST"
  /\ req.args.search = None
  /\ req.args.page = IntV(2)
  /\ req.args.perpage = IntV(2)
  /\ DOMAIN leads = {1, 2, 3}
  /\ resp.status = 200
  /\ resp.body.count = 1
  /\ resp.body.leads[1].id = IntV(3)

\* The names an include string requests: its pieces between commas.
RequestedNames(s) ==
  {SubSeq(s, p[1], p[2]) :
     p \in {q \in (1..(Len(s) + 1)) \X (0..Len(s)) :
              /\ q[1] <= q[2] + 1
              /\ \A x \in q[1]..q[2] : s[x] /= ","
              /\ (q[1] = 1 \/ s[q[1] - 1] = ",")
              /\ (q[2] = Len(s) \/ s[q[2] + 1] = ",")}}

SameIgnoringCase(a, b) ==
  Len(a) = Len(b) /\ \A x \in DOMAIN a : lowerChar(a[x]) = lowerChar(b[x])

\* The fixed fields an include parameter selects: all when it is omitted.
SelectedFields(include) ==
  IF include = None THEN FieldSet
  ELSE {f \in FieldSet : \E n \in RequestedNames(include) : SameIgnoringCase(n, Spelling[f])}

\* C9: the keys of every lead a listing returns are the requested include names
\* that are fixed fields, compared without case (all fixed fields when include
\* is omitted); with drop_null=true, those of them whose value in the row is not
\* null.
C9_KeysFromIncludeAndDropNull ==
  (req.method = "LIST" /\ resp.status = 200) =>
    LET out == resp.body.leads
        selected == SelectedFields(req.args.include)
    IN \A k \in DOMAIN out :
         \E i \in DOMAIN leads :
           /\ \A f \in DOMAIN out[k] : out[k][f] = leads[i][f]
           /\ req.args.drop_null \in {None, str_false} => DOMAIN out[k] = selected
           /\ req.args.drop_null = str_true =>
                DOMAIN out[k] = {f \in selected : leads[i][f] /= None}

\* include=ID,Company_Name with drop_null=true: a lead with a name has both
\* keys, a lead without has id alone.
C9_Witness ==
  /\ req.method = "LIST"
  /\ req.args.include = inc_mixed
  /\ req.args.drop_null = str_true
  /\ resp.status = 200
  /\ \E k \in DOMAIN resp.body.leads : DOMAIN resp.body.leads[k] = {"id"}
  /\ \E k \in DOMAIN resp.body.leads : DOMAIN resp.body.leads[k] = {"id", "company_name"}

\* ----------------------------------------- claims on concurrent requests

AllDone == workers /= NoWorkers /\ \A w \in Workers : workers[w].pc = "done"

\* A write request as one handler call on table t.
ServeRequest(t, seq, r) ==
  IF r.method = "POST" THEN ServeCreate(t, seq, r.json)
  ELSE IF r.method = "PUT" THEN ServeModify(t, seq, r.id, r.json)
  ELSE ServeDelete(t, seq, r.id)

RECURSIVE SerialRun(_, _)
\* The table, the sequence and the responses after the workers' requests are
\* served one after the other in the given order.
SerialRun(order, st) ==
  IF order = <<>> THEN st
  ELSE LET w == Head(order)
           out == ServeRequest(st.table, st.seq, workers[w].req)
       IN SerialRun(Tail(order),
                    [table |-> out.table, seq |-> out.seq,
                     resps |-> [st.resps EXCEPT ![w] = out.resp]])

SerialOrders ==
  {o \in [1..NumWorkers -> Workers] : \A k, l \in 1..NumWorkers : k /= l => o[k] /= o[l]}

SerialStart == [table |-> ConcTable, seq |-> 1, resps |-> [w \in Workers |-> NoResponse]]

\* The final table and every response are those of some serial order.
Serializable ==
  AllDone =>
    \E o \in SerialOrders :
      LET st == SerialRun(o, SerialStart)
      IN /\ st.table = leads
         /\ st.seq = leads_id_seq
         /\ \A w \in Workers : st.resps[w] = workers[w].resp

\* A column an update set keeps the value, unless another update of the lead
\* set the same column or the lead was deleted.
NoLostUpdate ==
  AllDone =>
    \A w \in Workers :
      LET r == workers[w].req
      IN (r.method = "PUT" /\ workers[w].resp.status = 200 /\ r.id \in DOMAIN leads) =>
           \A f \in Supplied(r.json) :
             (\A v \in Workers \ {w} :
                ~ ( /\ workers[v].req.method = "PUT"
                    /\ workers[v].req.id = r.id
                    /\ f \in Supplied(workers[v].req.json) ))
               => leads[r.id][f] = r.json[f]

\* Once a DELETE has removed a lead, no update brings the lead back.
NoReCreation ==
  \A w \in DOMAIN workers :
    ( /\ workers[w].req.method = "DELETE"
      /\ workers[w].pc \in {"respond", "done"}
      /\ workers[w].res.rows /= <<>> ) => workers[w].req.id \notin DOMAIN leads

\* An update that sets columns and races with a delete of its lead has updated
\* the row (200, with the values it set) or found none (404).
UpdateOrNotFound ==
  AllDone =>
    \A w, v \in Workers :
      LET r == workers[w].req
      IN ( /\ r.method = "PUT"
           /\ Supplied(r.json) /= {}
           /\ workers[v].req.method = "DELETE"
           /\ workers[v].req.id = r.id ) =>
           /\ workers[w].resp.status \in {200, 404}
           /\ workers[w].resp.status = 200 =>
                \A f \in Supplied(r.json) : workers[w].resp.body[f] = r.json[f]

====
